---- MODULE Spec2Model ----
(***************************************************************************)
(* Checkpoint / resume behaviour of the BiDAF training script             *)
(* src/baselines/generative/bidaf/mrcqa/train.py.                          *)
(*                                                                         *)
(* The persistent state is the experiment folder: the HDF5 file            *)
(* `checkpoint` (vocabularies, training/epoch, model weights) and the      *)
(* companion file `checkpoint.opt` (optimizer state).  One training        *)
(* process at a time runs main(); it can be killed at any point and        *)
(* invoked again on the same folder.                                       *)
(***************************************************************************)
EXTENDS Integers, Sequences, FiniteSets, TLC

\* ------------------------------------------------------------------ bounds
\* Cap on the epoch counter, so that itertools.count(epoch) stays finite.
MaxEpoch == 2

\* Number of examples of the long data file "L", enough for train() to
\* reach a second logged batch.
LargeData == 101

\* Python's None for integer-valued slots.
NoneVal == -1

\* fixedE when the configured epoch count may differ from run to run.
Free == -2

\* train.py:174, a batch is logged when batch_id % 100 == 0.
LogEvery == 100

\* ------------------------------------------------------------ input domains
\* constants.SOS_TOKEN / constants.EOS_TOKEN (looked up at train.py:119-120).
SOS_TOKEN == "<sos>"
EOS_TOKEN == "<eos>"

\* The training data files args.data can name: a sequence of examples, each
\* a sequence of tokens.  "B" adds a token whose characters are all known,
\* "C" adds a token with a new character and, cut to one token per passage,
\* holds no token that "A" does not hold.
DataNames == {"A", "B", "C"}

DataFile(name) ==
    CASE name = "A" -> << <<"x", "y">>, <<"y">> >>
      [] name = "B" -> << <<"x", "y">>, <<"y">>, <<"xy">> >>
      [] name = "C" -> << <<"x", "z">> >>
      [] name = "L" -> [i \in 1 .. LargeData |-> <<"x">>]

\* The characters of a token.
CharsOf(tok) ==
    CASE tok = "x"  -> <<"x">>
      [] tok = "y"  -> <<"y">>
      [] tok = "z"  -> <<"z">>
      [] tok = "xy" -> <<"x", "y">>
      [] tok = SOS_TOKEN -> <<"<", "s">>
      [] tok = EOS_TOKEN -> <<"<", "s">>
      [] OTHER -> <<>>

\* The files args.word_rep can name ("none": the option is not given) and
\* the tokens each holds a vector for.
WordRepNames == {"none", "all", "some"}

WordRepFile(name) ==
    CASE name = "all"  -> {"x", "y", "z", "xy", SOS_TOKEN, EOS_TOKEN}
      [] name = "some" -> {"x", "z"}
      [] OTHER -> {}

\* training.epochs of config.yaml: absent (None) or a count.
EpochsOptions == {NoneVal} \cup (0 .. MaxEpoch)

\* training.batch_size of config.yaml: absent (None) or a size.
BatchSizeOptions == {NoneVal, 1, 2}

\* training.limit of config.yaml: absent (None) or a passage length limit.
LimitOptions == {NoneVal, 1}

\* ------------------------------------------------------------------- state
VARIABLES
    ckpt,            \* the HDF5 file exp_folder/checkpoint
    opt_file,        \* the file exp_folder/checkpoint.opt
    pc,              \* position of the training process in main()
    args,            \* parsed command line: force_restart, data
    config,          \* config.yaml: epochs, batch_size, limit
    checkpoint,      \* main's `checkpoint`: TRUE when an open h5py.File
    training_state,  \* main's `training_state`: optimizer state or NoState
    epoch,           \* main's `epoch`
    model,           \* in-memory weights
    optimizer,       \* in-memory Adam state
    id_to_token,     \* in-memory token vocabulary, id i at position i+1
    id_to_char,      \* in-memory character vocabulary
    batch_id,        \* train's position in the epoch's batches
    error,           \* the exception that ended the process, or "none"
    hist,            \* history of the run, for stating the properties
    batches,         \* the batches EpochGen yields in the running epoch
    embedding,       \* the token embedding matrix as init_state leaves it
    fixedE           \* the epoch count every run is configured with, or Free

vars == <<ckpt, opt_file, pc, args, config, checkpoint, training_state, epoch,
          model, optimizer, id_to_token, id_to_char, batch_id, error, hist,
          batches, embedding, fixedE>>

folder == <<ckpt, opt_file>>

\* ------------------------------------------------------------ pure helpers
Range(s) == {s[i] : i \in 1 .. Len(s)}

RECURSIVE Flatten(_)
Flatten(ss) == IF ss = <<>> THEN <<>> ELSE Head(ss) \o Flatten(Tail(ss))

\* dict.setdefault(sym, len(dict)) on a symbol table kept as the id-ordered
\* list of its symbols.
Register(voc, sym) == IF sym \in Range(voc) THEN voc ELSE Append(voc, sym)

RECURSIVE RegisterAll(_, _)
RegisterAll(voc, syms) ==
    IF syms = <<>> THEN voc
    ELSE RegisterAll(Register(voc, Head(syms)), Tail(syms))

\* A passage cut to `limit` tokens (no cut when limit is None).
Limited(toks, limit) ==
    IF limit = NoneVal \/ Len(toks) <= limit THEN toks
    ELSE SubSeq(toks, 1, limit)

RECURSIVE LimitedAll(_, _)
LimitedAll(data, limit) ==
    IF data = <<>> THEN <<>>
    ELSE <<Limited(Head(data), limit)>> \o LimitedAll(Tail(data), limit)

RECURSIVE CharsOfAll(_)
CharsOfAll(toks) ==
    IF toks = <<>> THEN <<>> ELSE CharsOf(Head(toks)) \o CharsOfAll(Tail(toks))

\* dataset.tokenize_data: maps every token and character of the data to its
\* id, registering the sentinels and every symbol not yet in the tables in
\* order of first appearance.  Returns the two updated tables.
tokenize_data(data, token_to_id, char_to_id, limit) ==
    LET toks == <<SOS_TOKEN, EOS_TOKEN>> \o Flatten(LimitedAll(data, limit))
    IN  [tok  |-> RegisterAll(token_to_id, toks),
         char |-> RegisterAll(char_to_id, CharsOfAll(toks))]

\* get_loader: EpochGen(data, batch_size=config.training.batch_size or 32).
LoaderBatchSize(cfg) == IF cfg.batch_size = NoneVal THEN 32 ELSE cfg.batch_size

\* Number of batches EpochGen yields per epoch: consecutive slices of the
\* batch size, the last one possibly short.
NumBatches(data, cfg) ==
    (Len(data) + LoaderBatchSize(cfg) - 1) \div LoaderBatchSize(cfg)

\* The orders random.shuffle can leave n examples in.
Shuffles(n) ==
    {p \in [1 .. n -> 1 .. n] : \A i, j \in 1 .. n : p[i] = p[j] => i = j}

\* Variant of Slices that drops a short last group.
Slices_fullOnly(order, size) ==
    [b \in 1 .. (Len(order) \div size)
       |-> SubSeq(order, (b - 1) * size + 1, b * size)]

\* Consecutive groups of `size` elements of `order`, the last possibly short.
Slices(order, size) ==
    [b \in 1 .. ((Len(order) + size - 1) \div size)
       |-> SubSeq(order, (b - 1) * size + 1,
                  IF b * size <= Len(order) THEN b * size ELSE Len(order))]

\* dataset.EpochGen.__iter__ with shuffle=True: the examples in the shuffled
\* order, cut into batches.
EpochGen(data, cfg, order) == Slices(order, LoaderBatchSize(cfg))

\* The operations train() performs on one batch, in program order
\* (train.py:159-171).
BatchOps == <<"forward", "eval_batch_loss", "zero_grad", "backward", "step">>

\* Variant of LogDue that logs the last batch of every hundred.
LogDue_last(id) == id % LogEvery = LogEvery - 1

\* train.py:174, whether the batch is logged.
LogDue(id) == id % LogEvery = 0

\* train.py:175-176, the two log lines of a logged batch.
LogOps(id) == IF LogDue(id) THEN <<"log_loss", "log_perplexity">> ELSE <<>>

\* No embedding matrix held (no model, or a model whose embeddings are
\* trained weights).
NoEmbedding == [word_rep |-> "none", rows |-> <<>>, draws |-> 0]

\* The embedding matrix BidafModel.from_config leaves: one random row per id.
RandomRows(id_to_symb) == [i \in 1 .. Len(id_to_symb) |-> <<"random", i - 1>>]

\* train.py:128-130, SymbolEmbSourceText restricted to the tokens of the
\* vocabulary other than id 0.
PreTrained(name, id_to_symb) ==
    WordRepFile(name) \cap {id_to_symb[i] : i \in 2 .. Len(id_to_symb)}

\* Variant of symbol_injection that also replaces the row of the skipped id.
RECURSIVE symbol_injection_all(_, _, _, _, _)
symbol_injection_all(id_to_symb, skip, rows, pre_trained, draws) ==
    LET i == Len(rows) + 1 IN
    IF i > Len(id_to_symb) THEN [rows |-> rows, draws |-> draws]
    ELSE IF id_to_symb[i] \in pre_trained
    THEN symbol_injection_all(id_to_symb, skip,
                              Append(rows, <<"text", id_to_symb[i]>>), pre_trained, draws)
    ELSE symbol_injection_all(id_to_symb, skip,
                              Append(rows, <<"norm", draws + 1>>), pre_trained, draws + 1)

\* dataset.symbol_injection(id_to_symb, skip, embedding, pre_trained, oovs):
\* every id but `skip` gets the vector of the text source when the source
\* has the token and the next vector drawn from the statistical source
\* otherwise.  `rows` are the rows built so far, `draws` the vectors drawn.
RECURSIVE symbol_injection(_, _, _, _, _)
symbol_injection(id_to_symb, skip, rows, pre_trained, draws) ==
    LET i == Len(rows) + 1 IN
    IF i > Len(id_to_symb) THEN [rows |-> rows, draws |-> draws]
    ELSE IF i - 1 = skip
    THEN symbol_injection(id_to_symb, skip,
                          Append(rows, <<"random", i - 1>>), pre_trained, draws)
    ELSE IF id_to_symb[i] \in pre_trained
    THEN symbol_injection(id_to_symb, skip,
                          Append(rows, <<"text", id_to_symb[i]>>), pre_trained, draws)
    ELSE symbol_injection(id_to_symb, skip,
                          Append(rows, <<"norm", draws + 1>>), pre_trained, draws + 1)

\* train.py:123-141, the embedding matrix of the new model.
InitialEmbedding(word_rep, id_to_symb) ==
    IF word_rep # "none"
    THEN LET injected == symbol_injection(id_to_symb, 0, <<>>,
                                          PreTrained(word_rep, id_to_symb), 0)
         IN  [word_rep |-> word_rep, rows |-> injected.rows, draws |-> injected.draws]
    ELSE [word_rep |-> word_rep, rows |-> RandomRows(id_to_symb), draws |-> 0]

\* ----------------------------------------------------------- file contents
\* Weights and optimizer history are abstracted to the training that
\* produced them: `trained` is the last epoch whose every batch has gone into
\* them (NoneVal when none has), `partial` the number of batches of the
\* following epoch that have.
NoState == [trained |-> NoneVal, partial |-> NoneVal]

\* A freshly constructed model (BidafModel.from_config) or a freshly
\* constructed optim.Adam: no step taken yet.
FreshState == [trained |-> NoneVal, partial |-> 0]

\* No file named exp_folder/checkpoint.
NoCheckpointFile ==
    [exists |-> FALSE, vocab |-> <<>>, c_vocab |-> <<>>,
     epoch |-> NoneVal, model |-> NoState]

\* h5py.File(path) on a path that does not exist creates an empty file; on
\* an existing file it opens it for update and keeps what it holds.
h5py_File(file) ==
    IF file.exists THEN file ELSE [NoCheckpointFile EXCEPT !.exists = TRUE]

\* No file named exp_folder/checkpoint.opt.
NoOptFile == [kind |-> "absent", state |-> NoState]

\* torch.load(exp_folder + '/checkpoint.opt'): the stored state, or the
\* exception it raises.
torch_load(file) ==
    CASE file.kind = "valid"   -> [raises |-> "none", value |-> file.state]
      [] file.kind = "absent"  -> [raises |-> "FileNotFoundError", value |-> NoState]
      [] file.kind = "corrupt" -> [raises |-> "UnpicklingError", value |-> NoState]

\* checkpointing.save_vocab(checkpoint, name, id_to_symb).
save_vocab(file, name, id_to_symb) ==
    IF name = "vocab" THEN [file EXCEPT !.vocab = id_to_symb]
    ELSE [file EXCEPT !.c_vocab = id_to_symb]

\* Variant of checkpointing_checkpoint that leaves the epoch counter out.
checkpointing_checkpoint_noEpoch(mdl, ep, optim, file) ==
    [ckpt |-> [file EXCEPT !.model = mdl],
     opt  |-> [kind |-> "valid", state |-> optim]]

\* checkpointing.checkpoint(model, epoch, optimizer, checkpoint, exp_folder):
\* persists the weights, the optimizer state and the epoch number as one
\* step.
checkpointing_checkpoint(mdl, ep, optim, file) ==
    [ckpt |-> [file EXCEPT !.epoch = ep, !.model = mdl],
     opt  |-> [kind |-> "valid", state |-> optim]]

\* BidafModel.from_checkpoint(config['bidaf'], checkpoint).
from_checkpoint(file) ==
    [model |-> file.model, id_to_token |-> file.vocab, id_to_char |-> file.c_vocab]

\* ------------------------------------------------------- train.py functions
\* Variant of ResumeEpoch that continues at the stored epoch itself.
ResumeEpoch_stored(stored) == stored

\* train.py:35, the epoch to continue at.
ResumeEpoch(stored) == stored + 1

\* Variant of LoadTrainingState without the except clause.
LoadTrainingState_noExcept(ofile) == torch_load(ofile)

\* train.py:37-40, torch.load under `except FileNotFoundError`.
LoadTrainingState(ofile) ==
    LET loaded == torch_load(ofile) IN
    IF loaded.raises = "FileNotFoundError"
    THEN [raises |-> "none", value |-> NoState]
    ELSE loaded

\* What try_to_resume returns, or the exception that escapes it.
Returned(ckp, state, ep) ==
    [raises |-> "none", checkpoint |-> ckp, training_state |-> state, epoch |-> ep]
Raised(exc) ==
    [raises |-> exc, checkpoint |-> FALSE, training_state |-> NoState, epoch |-> NoneVal]

\* train.py:33-44, the branches of try_to_resume below `if force_restart`.
ResumeFrom(file, ofile) ==
    IF file.exists
    THEN IF file.epoch = NoneVal
         THEN Raised("KeyError")
         ELSE LET loaded == LoadTrainingState(ofile) IN
              IF loaded.raises # "none"
              THEN Raised(loaded.raises)
              ELSE Returned(TRUE, loaded.value, ResumeEpoch(file.epoch))
    ELSE Returned(FALSE, NoState, 0)

\* Variant of try_to_resume that does not look at force_restart.
try_to_resume_noForce(force_restart, file, ofile) == ResumeFrom(file, ofile)

\* try_to_resume(force_restart, exp_folder), train.py:30-44.
try_to_resume(force_restart, file, ofile) ==
    IF force_restart
    THEN Returned(FALSE, NoState, 0)
    ELSE ResumeFrom(file, ofile)

\* get_optimizer(model, config, state).
get_optimizer(state) == IF state # NoState THEN state ELSE FreshState

\* Variant of VocabStable without the assertion on the character table.
VocabStable_tokensOnly(tables, len_tok_voc, len_char_voc) ==
    Len(tables.tok) = len_tok_voc

\* train.py:73-74, the two assertions of reload_state.
VocabStable(tables, len_tok_voc, len_char_voc) ==
    /\ Len(tables.tok) = len_tok_voc
    /\ Len(tables.char) = len_char_voc

\* Variant of InEpochs whose range includes train_for_epochs.
InEpochs_inclusive(e, train_for_epochs) ==
    IF train_for_epochs # NoneVal THEN e <= train_for_epochs ELSE TRUE

\* train.py:231-236, whether the iterator `epochs` yields e.
InEpochs(e, train_for_epochs) ==
    IF train_for_epochs # NoneVal THEN e < train_for_epochs ELSE TRUE

\* ------------------------------------------------------------- the process
\* No process: never started or exited ("idle"), or killed.
Stopped == {"idle", "killed"}

\* main has returned ("done") or an exception has escaped it ("failed").
Ended == {"done", "failed"}

NoArgs == [force_restart |-> FALSE, data |-> "A"]
NoConfig == [epochs |-> NoneVal, batch_size |-> NoneVal, limit |-> NoneVal]

\* The history before the first process: how the previous process ended
\* (afterKill, prevIdle), what try_to_resume found and returned (foundFile,
\* stored, optKind, mode, start), the epochs the process started (ran), its
\* checkpoint writes, the last epoch completed in the folder, the epoch
\* numbers the process checkpointed (stamps), the examples train() consumed
\* in the running epoch (consumed), the operations on the most recent batch
\* (ops) and the batches logged in the running epoch (logged).
NoHist ==
    [afterKill |-> FALSE, prevIdle |-> FALSE, foundFile |-> FALSE,
     stored |-> NoneVal, optKind |-> "absent", mode |-> "none",
     start |-> NoneVal, ran |-> <<>>, writes |-> 0, lastCompleted |-> NoneVal,
     stamps |-> <<>>, consumed |-> <<>>, ops |-> <<>>, logged |-> <<>>]

Init ==
    /\ ckpt = NoCheckpointFile
    /\ opt_file = NoOptFile
    /\ pc = "idle"
    /\ args = NoArgs
    /\ config = NoConfig
    /\ checkpoint = FALSE
    /\ training_state = NoState
    /\ epoch = 0
    /\ model = NoState
    /\ optimizer = NoState
    /\ id_to_token = <<>>
    /\ id_to_char = <<>>
    /\ batch_id = 0
    /\ error = "none"
    /\ hist = NoHist
    /\ batches = <<>>
    /\ embedding = NoEmbedding
    /\ fixedE = Free

\* main() up to and including the call of try_to_resume (train.py:185-214).
Invoke(a, c) ==
    /\ pc \in Stopped
    /\ LET r == try_to_resume(a.force_restart, ckpt, opt_file) IN
       /\ args' = a
       /\ config' = c
       /\ checkpoint' = r.checkpoint
       /\ training_state' = r.training_state
       /\ epoch' = r.epoch
       /\ error' = r.raises
       /\ pc' = IF r.raises # "none" THEN "failed"
                ELSE IF r.checkpoint THEN "reload_state" ELSE "init_state"
       /\ hist' = [hist EXCEPT !.foundFile = ckpt.exists,
                               !.stored = ckpt.epoch,
                               !.optKind = opt_file.kind,
                               !.mode = IF r.raises # "none" THEN "none"
                                        ELSE IF r.checkpoint THEN "RESUMING" ELSE "FRESH",
                               !.start = r.epoch,
                               !.ran = <<>>,
                               !.writes = 0]
    /\ model' = NoState
    /\ optimizer' = NoState
    /\ id_to_token' = <<>>
    /\ id_to_char' = <<>>
    /\ batch_id' = 0
    /\ batches' = <<>>
    /\ embedding' = NoEmbedding
    /\ UNCHANGED <<folder, fixedE>>

\* Variant of ReloadState without the two assertions, going on with the
\* tables as re-tokenizing left them.
ReloadState_noAssert ==
    /\ pc = "reload_state"
    /\ LET loaded == from_checkpoint(ckpt)
           tables == tokenize_data(DataFile(args.data), loaded.id_to_token,
                                   loaded.id_to_char, config.limit)
       IN  /\ model' = loaded.model
           /\ optimizer' = get_optimizer(training_state)
           /\ id_to_token' = tables.tok
           /\ id_to_char' = tables.char
           /\ pc' = "loop"
    /\ UNCHANGED <<folder, args, config, checkpoint, training_state, epoch,
                   batch_id, error, hist>>
    /\ UNCHANGED <<batches, embedding, fixedE>>

\* reload_state(checkpoint, training_state, config, args), train.py:47-76.
ReloadState ==
    /\ pc = "reload_state"
    /\ LET loaded == from_checkpoint(ckpt)
           tables == tokenize_data(DataFile(args.data), loaded.id_to_token,
                                   loaded.id_to_char, config.limit)
       IN  /\ model' = loaded.model
           /\ optimizer' = get_optimizer(training_state)
           /\ id_to_token' = loaded.id_to_token
           /\ id_to_char' = loaded.id_to_char
           /\ IF VocabStable(tables, Len(loaded.id_to_token), Len(loaded.id_to_char))
              THEN pc' = "loop" /\ error' = error
              ELSE pc' = "failed" /\ error' = "AssertionError"
    /\ UNCHANGED <<folder, args, config, checkpoint, training_state, epoch,
                   batch_id, hist>>
    /\ UNCHANGED <<batches, embedding, fixedE>>

\* init_state(config, args), train.py:106-150.
InitState ==
    /\ pc = "init_state"
    /\ LET tables == tokenize_data(DataFile(args.data), <<"">>, <<"">>, NoneVal) IN
       /\ id_to_token' = tables.tok
       /\ id_to_char' = tables.char
       /\ \E word_rep \in WordRepNames :
             embedding' = InitialEmbedding(word_rep, tables.tok)
    /\ model' = FreshState
    /\ optimizer' = get_optimizer(NoState)
    /\ pc' = "open_checkpoint"
    /\ UNCHANGED <<folder, args, config, checkpoint, training_state, epoch,
                   batch_id, error, hist, batches, fixedE>>

\* train.py:224, checkpoint = h5py.File(exp_folder/checkpoint).
OpenCheckpoint ==
    /\ pc = "open_checkpoint"
    /\ ckpt' = h5py_File(ckpt)
    /\ checkpoint' = TRUE
    /\ pc' = "save_vocab"
    /\ UNCHANGED <<opt_file, args, config, training_state, epoch, model,
                   optimizer, id_to_token, id_to_char, batch_id, error, hist>>
    /\ UNCHANGED <<batches, embedding, fixedE>>

\* Variant of SaveVocab that goes on without writing the token vocabulary.
SaveVocab_skipped ==
    /\ pc = "save_vocab"
    /\ pc' = "save_c_vocab"
    /\ UNCHANGED <<folder, args, config, checkpoint, training_state, epoch,
                   model, optimizer, id_to_token, id_to_char, batch_id, error, hist>>
    /\ UNCHANGED <<batches, embedding, fixedE>>

\* train.py:225, save_vocab(checkpoint, 'vocab', id_to_token).
SaveVocab ==
    /\ pc = "save_vocab"
    /\ ckpt' = save_vocab(ckpt, "vocab", id_to_token)
    /\ pc' = "save_c_vocab"
    /\ UNCHANGED <<opt_file, args, config, checkpoint, training_state, epoch,
                   model, optimizer, id_to_token, id_to_char, batch_id, error, hist>>
    /\ UNCHANGED <<batches, embedding, fixedE>>

\* train.py:226, save_vocab(checkpoint, 'c_vocab', id_to_char).
SaveCharVocab ==
    /\ pc = "save_c_vocab"
    /\ ckpt' = save_vocab(ckpt, "c_vocab", id_to_char)
    /\ pc' = "loop"
    /\ UNCHANGED <<opt_file, args, config, checkpoint, training_state, epoch,
                   model, optimizer, id_to_token, id_to_char, batch_id, error, hist>>
    /\ UNCHANGED <<batches, embedding, fixedE>>

\* Variant of StartEpoch that starts an epoch whatever `epochs` yields.
StartEpoch_unbounded ==
    /\ pc = "loop"
    /\ epoch < MaxEpoch
    /\ pc' = "train"
    /\ batch_id' = 0
    /\ \E order \in Shuffles(Len(DataFile(args.data))) :
          batches' = EpochGen(DataFile(args.data), config, order)
    /\ hist' = [hist EXCEPT !.ran = Append(@, epoch), !.consumed = <<>>,
                            !.ops = <<>>, !.logged = <<>>]
    /\ UNCHANGED <<folder, args, config, checkpoint, training_state, epoch,
                   model, optimizer, id_to_token, id_to_char, error,
                   embedding, fixedE>>

\* train.py:239, the head of `for epoch in epochs`: the next epoch starts.
StartEpoch ==
    /\ pc = "loop"
    /\ InEpochs(epoch, config.epochs)
    /\ epoch < MaxEpoch
    /\ pc' = "train"
    /\ batch_id' = 0
    /\ \E order \in Shuffles(Len(DataFile(args.data))) :
          batches' = EpochGen(DataFile(args.data), config, order)
    /\ hist' = [hist EXCEPT !.ran = Append(@, epoch), !.consumed = <<>>,
                            !.ops = <<>>, !.logged = <<>>]
    /\ UNCHANGED <<folder, args, config, checkpoint, training_state, epoch,
                   model, optimizer, id_to_token, id_to_char, error,
                   embedding, fixedE>>

\* Variant of Finish that leaves the loop whether or not epochs remain.
Finish_anytime ==
    /\ pc = "loop"
    /\ pc' = "done"
    /\ UNCHANGED <<folder, args, config, checkpoint, training_state, epoch,
                   model, optimizer, id_to_token, id_to_char, batch_id, error, hist>>
    /\ UNCHANGED <<batches, embedding, fixedE>>

\* train.py:239 and 249, `epochs` is exhausted and main returns.
Finish ==
    /\ pc = "loop"
    /\ ~InEpochs(epoch, config.epochs)
    /\ pc' = "done"
    /\ UNCHANGED <<folder, args, config, checkpoint, training_state, epoch,
                   model, optimizer, id_to_token, id_to_char, batch_id, error, hist>>
    /\ UNCHANGED <<batches, embedding, fixedE>>

\* One iteration of the batch loop of train(), train.py:158-176.
TrainBatch ==
    /\ pc = "train"
    /\ batch_id < Len(batches)
    /\ LET last == batch_id + 1 = Len(batches) IN
       /\ model' = IF last THEN [trained |-> epoch, partial |-> 0]
                    ELSE [model EXCEPT !.partial = @ + 1]
       /\ optimizer' = IF last THEN [trained |-> epoch, partial |-> 0]
                        ELSE [optimizer EXCEPT !.partial = @ + 1]
    /\ hist' = [hist EXCEPT !.consumed = @ \o batches[batch_id + 1],
                            !.ops = BatchOps \o LogOps(batch_id),
                            !.logged = IF LogDue(batch_id)
                                       THEN Append(@, batch_id) ELSE @]
    /\ embedding' = NoEmbedding
    /\ batch_id' = batch_id + 1
    /\ UNCHANGED <<folder, args, config, checkpoint, training_state, epoch,
                   id_to_token, id_to_char, pc, error, batches, fixedE>>

\* train() has returned and main checkpoints under the number `ep`; the
\* loop then moves to the next epoch.  An epoch counts as completed when all
\* its batches were trained and its iteration of the loop ended.
CheckpointAs(ep) ==
    /\ pc = "train"
    /\ batch_id = Len(batches)
    /\ LET saved == checkpointing_checkpoint(model, ep, optimizer, ckpt) IN
       /\ ckpt' = saved.ckpt
       /\ opt_file' = saved.opt
    /\ epoch' = epoch + 1
    /\ pc' = "loop"
    /\ hist' = [hist EXCEPT !.writes = @ + 1, !.lastCompleted = epoch,
                            !.stamps = Append(@, ep)]
    /\ batches' = <<>>
    /\ UNCHANGED <<args, config, checkpoint, training_state, model, optimizer,
                   id_to_token, id_to_char, batch_id, error, embedding, fixedE>>

\* Variant of Checkpoint that does not wait for train() to return.
Checkpoint_midEpoch ==
    /\ pc = "train"
    /\ LET saved == checkpointing_checkpoint(model, epoch, optimizer, ckpt) IN
       /\ ckpt' = saved.ckpt
       /\ opt_file' = saved.opt
    /\ epoch' = epoch + 1
    /\ pc' = "loop"
    /\ hist' = [hist EXCEPT !.writes = @ + 1, !.lastCompleted = epoch,
                            !.stamps = Append(@, epoch)]
    /\ batches' = <<>>
    /\ UNCHANGED <<args, config, checkpoint, training_state, model, optimizer,
                   id_to_token, id_to_char, batch_id, error, embedding, fixedE>>

\* Variant of Checkpoint that stores the number of the epoch to run next.
Checkpoint_nextEpoch == CheckpointAs(epoch + 1)

\* train.py:244-247, checkpointing.checkpoint(model, epoch, optimizer, ...).
Checkpoint == CheckpointAs(epoch)

\* The process is gone and with it everything it held in memory; the
\* folder stays.
ProcessGone ==
    /\ args' = NoArgs
    /\ config' = NoConfig
    /\ checkpoint' = FALSE
    /\ training_state' = NoState
    /\ epoch' = 0
    /\ model' = NoState
    /\ optimizer' = NoState
    /\ id_to_token' = <<>>
    /\ id_to_char' = <<>>
    /\ batch_id' = 0
    /\ error' = "none"
    /\ batches' = <<>>
    /\ embedding' = NoEmbedding
    /\ UNCHANGED <<folder, fixedE>>

\* The process is killed from outside while main is running.
Kill ==
    /\ pc \notin Stopped \cup Ended
    /\ pc' = "killed"
    /\ hist' = [NoHist EXCEPT !.afterKill = TRUE,
                              !.lastCompleted = hist.lastCompleted]
    /\ ProcessGone

\* The process exits after main returned or raised, train.py:249-253.
Exit ==
    /\ pc \in Ended
    /\ pc' = "idle"
    /\ hist' = [NoHist EXCEPT !.prevIdle = (pc = "done" /\ hist.mode = "RESUMING"
                                            /\ hist.ran = <<>>),
                              !.lastCompleted = hist.lastCompleted]
    /\ ProcessGone

\* Between runs the optimizer-state file goes missing.
LoseOptFile ==
    /\ pc \in Stopped
    /\ opt_file.kind # "absent"
    /\ opt_file' = NoOptFile
    /\ UNCHANGED <<ckpt, pc, args, config, checkpoint, training_state, epoch,
                   model, optimizer, id_to_token, id_to_char, batch_id, error, hist>>
    /\ UNCHANGED <<batches, embedding, fixedE>>

\* Between runs the optimizer-state file becomes unreadable.
CorruptOptFile ==
    /\ pc \in Stopped
    /\ opt_file.kind = "valid"
    /\ opt_file' = [kind |-> "corrupt", state |-> NoState]
    /\ UNCHANGED <<ckpt, pc, args, config, checkpoint, training_state, epoch,
                   model, optimizer, id_to_token, id_to_char, batch_id, error, hist>>
    /\ UNCHANGED <<batches, embedding, fixedE>>

Next ==
    \/ \E fr \in BOOLEAN, d \in DataNames, e \in EpochsOptions,
          b \in BatchSizeOptions, l \in LimitOptions :
          Invoke([force_restart |-> fr, data |-> d],
                 [epochs |-> e, batch_size |-> b, limit |-> l])
    \/ ReloadState
    \/ InitState
    \/ OpenCheckpoint
    \/ SaveVocab
    \/ SaveCharVocab
    \/ StartEpoch
    \/ Finish
    \/ TrainBatch
    \/ Checkpoint
    \/ Kill
    \/ Exit
    \/ LoseOptFile
    \/ CorruptOptFile

Spec == Init /\ [][Next]_vars

\* ------------------------------- one folder, one epoch count, no restart
\* The experiment folder is empty and every run will be configured with
\* the same epoch count.
SteadyInit ==
    /\ ckpt = NoCheckpointFile
    /\ opt_file = NoOptFile
    /\ pc = "idle"
    /\ args = NoArgs
    /\ config = NoConfig
    /\ checkpoint = FALSE
    /\ training_state = NoState
    /\ epoch = 0
    /\ model = NoState
    /\ optimizer = NoState
    /\ id_to_token = <<>>
    /\ id_to_char = <<>>
    /\ batch_id = 0
    /\ error = "none"
    /\ hist = NoHist
    /\ batches = <<>>
    /\ embedding = NoEmbedding
    /\ fixedE \in 0 .. MaxEpoch

\* The steps of Next with every invocation made without --force_restart
\* and with training.epochs = fixedE.
SteadyNext ==
    \/ \E d \in DataNames, b \in BatchSizeOptions, l \in LimitOptions :
          Invoke([force_restart |-> FALSE, data |-> d],
                 [epochs |-> fixedE, batch_size |-> b, limit |-> l])
    \/ ReloadState
    \/ InitState
    \/ OpenCheckpoint
    \/ SaveVocab
    \/ SaveCharVocab
    \/ StartEpoch
    \/ Finish
    \/ TrainBatch
    \/ Checkpoint
    \/ Kill
    \/ Exit
    \/ LoseOptFile
    \/ CorruptOptFile

SteadySpec == SteadyInit /\ [][SteadyNext]_vars

\* ------------------------------------------------- one long epoch of train()
\* The orders of n examples followed in the long epoch: as read and reversed.
LongOrders(n) == {[i \in 1 .. n |-> i], [i \in 1 .. n |-> n + 1 - i]}

\* A FRESH process on an empty folder at the start of epoch 0 over the long
\* data file "L": init_state has run, the vocabularies are saved and
\* EpochGen has cut the epoch into batches.  Every example of "L" is the
\* same passage, so the tables init_state built are those of its first
\* example.
TrainInit ==
    \E b \in {1, 2}, order \in LongOrders(Len(DataFile("L"))) :
        LET cfg    == [epochs |-> 1, batch_size |-> b, limit |-> NoneVal]
            tables == tokenize_data(SubSeq(DataFile("L"), 1, 1), <<"">>, <<"">>,
                                    NoneVal)
        IN  /\ ckpt = save_vocab(save_vocab(h5py_File(NoCheckpointFile),
                                            "vocab", tables.tok),
                                 "c_vocab", tables.char)
            /\ opt_file = NoOptFile
            /\ pc = "train"
            /\ args = [force_restart |-> FALSE, data |-> "L"]
            /\ config = cfg
            /\ checkpoint = TRUE
            /\ training_state = NoState
            /\ epoch = 0
            /\ model = FreshState
            /\ optimizer = get_optimizer(NoState)
            /\ id_to_token = tables.tok
            /\ id_to_char = tables.char
            /\ batch_id = 0
            /\ error = "none"
            /\ hist = [NoHist EXCEPT !.mode = "FRESH", !.start = 0, !.ran = <<0>>]
            /\ batches = EpochGen(DataFile("L"), cfg, order)
            /\ embedding = InitialEmbedding("none", tables.tok)
            /\ fixedE = Free

TrainNext ==
    \/ TrainBatch
    \/ Checkpoint

TrainSpec == TrainInit /\ [][TrainNext]_vars

\* ------------------------------------------------------------- properties
Running == pc \notin Stopped \cup Ended

\* A process exists: it has passed try_to_resume and is running or ended.
Invoked == pc \notin Stopped

\* The data file named on the command line tokenizes into the persisted
\* vocabulary without adding a symbol.
DataFits ==
    LET tables == tokenize_data(DataFile(args.data), ckpt.vocab, ckpt.c_vocab,
                                config.limit)
    IN  Len(tables.tok) = Len(ckpt.vocab) /\ Len(tables.char) = Len(ckpt.c_vocab)

\* C1: a process invoked without force-restart after a kill, on unchanged
\* data and with a readable or missing optimizer file, starts successfully
\* and continues at the epoch following the last completed one (epoch 0 when
\* none has completed).
C1_CrashRecovery ==
    (/\ Invoked
     /\ hist.afterKill
     /\ ~args.force_restart
     /\ hist.optKind # "corrupt"
     /\ DataFits)
    => (/\ pc # "failed"
        /\ hist.start = hist.lastCompleted + 1)

\* C2: whenever the checkpoint file holds an epoch counter, the counter is
\* the number of the last completed epoch.
C2_StoredEpochIsLastCompleted ==
    ckpt.epoch # NoneVal => ckpt.epoch = hist.lastCompleted

C2_Witness ==
    /\ pc = "train"
    /\ hist.afterKill
    /\ hist.mode = "RESUMING"
    /\ batch_id = 1
    /\ ckpt.epoch = 0
    /\ epoch = 1

\* C3: when the checkpoint file is present and force-restart is not set,
\* try_to_resume selects RESUMING, the first epoch run is the stored counter
\* plus one and no epoch at or below the stored counter is run.
C3_ResumeWhenCheckpointPresent ==
    (Invoked /\ hist.foundFile /\ ~args.force_restart)
    => (/\ hist.mode = "RESUMING"
        /\ hist.start = hist.stored + 1
        /\ \A i \in 1 .. Len(hist.ran) : hist.ran[i] > hist.stored
        /\ hist.ran # <<>> => hist.ran[1] = hist.stored + 1)

\* C4: with force-restart set, start-up selects FRESH whatever the folder
\* holds: no checkpoint, no optimizer state and start epoch 0 are returned,
\* the vocabulary is built from scratch, the optimizer has no history and
\* the first epoch run is epoch 0.
C4_ForceRestartIsFresh ==
    (Invoked /\ args.force_restart)
    => (/\ hist.mode = "FRESH"
        /\ hist.start = 0
        /\ training_state = NoState
        /\ pc = "init_state" => ~checkpoint
        /\ pc \in {"open_checkpoint", "save_vocab", "save_c_vocab", "loop",
                   "train", "done"}
           => /\ id_to_token = RegisterAll(<<"">>, <<SOS_TOKEN, EOS_TOKEN>>
                                   \o Flatten(DataFile(args.data)))
              /\ id_to_char = RegisterAll(<<"">>, CharsOfAll(<<SOS_TOKEN, EOS_TOKEN>>
                                   \o Flatten(DataFile(args.data))))
        /\ (Running /\ hist.ran = <<>> /\ pc # "init_state")
           => optimizer = FreshState /\ model = FreshState
        /\ hist.ran # <<>> => hist.ran[1] = 0)

C4_Witness ==
    /\ args.force_restart
    /\ hist.foundFile
    /\ hist.stored = 1
    /\ hist.optKind = "valid"
    /\ pc = "train"
    /\ hist.ran = <<0>>
    /\ ckpt.epoch = 1

\* C5: without force-restart, with a checkpoint holding an epoch counter and
\* no optimizer-state file, start-up does not fail: training_state is None,
\* the optimizer starts without history, model and vocabulary are those of
\* the checkpoint and training continues at the stored epoch plus one.
C5_MissingOptimizerFile ==
    (/\ Invoked
     /\ ~args.force_restart
     /\ hist.stored # NoneVal
     /\ hist.optKind = "absent")
    => (/\ hist.mode = "RESUMING"
        /\ training_state = NoState
        /\ hist.start = hist.stored + 1
        /\ pc = "failed" => error = "AssertionError" /\ ~DataFits
        /\ (pc = "loop" /\ hist.ran = <<>>)
           => /\ optimizer = FreshState
              /\ model = ckpt.model
              /\ id_to_token = ckpt.vocab
              /\ id_to_char = ckpt.c_vocab
        /\ hist.ran # <<>> => hist.ran[1] = hist.stored + 1)

C5_Witness ==
    /\ ~args.force_restart
    /\ hist.stored = 0
    /\ hist.optKind = "absent"
    /\ pc = "train"
    /\ hist.ran = <<1>>
    /\ batch_id = 1

\* C6: without force-restart, with a checkpoint holding an epoch counter and
\* an unreadable optimizer-state file, the optimizer state is treated as
\* absent and training proceeds as when the file is missing.
C6_CorruptOptimizerFile ==
    (/\ Invoked
     /\ ~args.force_restart
     /\ hist.stored # NoneVal
     /\ hist.optKind = "corrupt")
    => (/\ hist.mode = "RESUMING"
        /\ training_state = NoState
        /\ hist.start = hist.stored + 1
        /\ pc = "failed" => error = "AssertionError")

C8_VocabularyAssertion ==
    [][(pc = "reload_state" /\ pc' # "killed")
       => (/\ IF DataFits
              THEN pc' = "loop" /\ error' = "none"
              ELSE pc' = "failed" /\ error' = "AssertionError"
           /\ ckpt' = ckpt
           /\ opt_file' = opt_file
           /\ hist.ran = <<>>
           /\ hist'.ran = <<>>)]_vars

C8_Witness ==
    /\ pc = "failed"
    /\ error = "AssertionError"
    /\ Len(ckpt.vocab) = Len(RegisterAll(ckpt.vocab, Flatten(DataFile(args.data))))
    /\ hist.ran = <<>>

\* C9: with epoch count E configured and start epoch s, the loop runs
\* exactly s, s+1, ..., E-1 (none when s >= E) and then main returns; with no
\* epoch count configured it runs s, s+1, ... and never returns.
C9_EpochsRun ==
    /\ \A i \in 1 .. Len(hist.ran) : hist.ran[i] = hist.start + i - 1
    /\ config.epochs # NoneVal
       => \A i \in 1 .. Len(hist.ran) : hist.ran[i] < config.epochs
    /\ pc = "done"
       => /\ config.epochs # NoneVal
          /\ Len(hist.ran) = IF hist.start >= config.epochs THEN 0
                             ELSE config.epochs - hist.start
          /\ hist.writes = Len(hist.ran)
    /\ (pc = "loop" /\ config.epochs # NoneVal /\ epoch >= config.epochs)
       => (~ENABLED StartEpoch /\ ENABLED Finish)
    /\ (pc = "loop" /\ config.epochs = NoneVal /\ epoch < MaxEpoch)
       => (ENABLED StartEpoch /\ ~ENABLED Finish)

C9_Witness ==
    /\ pc = "done"
    /\ hist.start = 1
    /\ config.epochs = 2
    /\ hist.ran = <<1>>

\* C10: a process invoked without force-restart on a checkpoint whose epoch
\* counter is N-1, with N epochs configured, runs no epoch, writes no
\* checkpoint and leaves the checkpoint file as it was.
C10_ResumeRoundTrip ==
    [][(/\ Running
        /\ hist.mode = "RESUMING"
        /\ config.epochs = hist.stored + 1)
       => (/\ ckpt' = ckpt
           /\ opt_file' = opt_file
           /\ hist'.ran = <<>>
           /\ hist'.writes = 0
           /\ pc' \in {"loop", "done", "failed", "killed"})]_vars

C10_Witness ==
    /\ pc = "done"
    /\ hist.mode = "RESUMING"
    /\ hist.prevIdle
    /\ config.epochs = hist.stored + 1
    /\ ckpt.epoch = hist.stored
    /\ hist.stored >= 1
    /\ hist.ran = <<>>

\* C11: a fresh run that returns with E epochs configured has written
\* exactly E checkpoints, the k-th under epoch number k-1, and leaves a
\* checkpoint file whose counter is E-1 (0 for one epoch) and whose
\* vocabulary holds every token of the data and the two sentinel tokens.
C11_FreshRunCheckpoints ==
    (pc = "done" /\ hist.mode = "FRESH")
    => (/\ config.epochs # NoneVal
        /\ hist.writes = config.epochs
        /\ hist.stamps = [k \in 1 .. config.epochs |-> k - 1]
        /\ config.epochs >= 1 => ckpt.epoch = config.epochs - 1
        /\ Range(Flatten(DataFile(args.data))) \cup {SOS_TOKEN, EOS_TOKEN}
              \subseteq Range(ckpt.vocab))

C11_Witness ==
    /\ pc = "done"
    /\ hist.mode = "FRESH"
    /\ Len(DataFile(args.data)) = 2
    /\ config.batch_size = 1
    /\ config.epochs = 1
    /\ hist.stamps = <<0>>
    /\ ckpt.epoch = 0
    /\ {"x", "y", SOS_TOKEN, EOS_TOKEN} \subseteq Range(ckpt.vocab)

\* C12: in every epoch the batches train() consumes hold every example
\* exactly once: no example is consumed twice, when train() has run through
\* the batches none is missing, and every batch has the configured size
\* except that the last one is short when the example count is not a
\* multiple of the batch size.
C12_BatchesCoverExamples ==
    pc = "train"
    => LET n    == Len(DataFile(args.data))
           size == LoaderBatchSize(config)
       IN  /\ \A i, j \in 1 .. Len(hist.consumed) :
                 hist.consumed[i] = hist.consumed[j] => i = j
           /\ Range(hist.consumed) \subseteq 1 .. n
           /\ batch_id = Len(batches) => Range(hist.consumed) = 1 .. n
           /\ Len(batches) = NumBatches(DataFile(args.data), config)
           /\ \A b \in 1 .. Len(batches) - 1 : Len(batches[b]) = size
           /\ Len(batches[Len(batches)]) =
                 IF n % size = 0 THEN size ELSE n % size

C12_Witness ==
    /\ pc = "train"
    /\ Len(DataFile(args.data)) = 3
    /\ config.batch_size = 2
    /\ batch_id = 2
    /\ hist.consumed = <<3, 1, 2>>
    /\ Len(batches[2]) = 1

\* C13: when init_state injects pre-trained embeddings, the row of every
\* token other than id 0 is the vector of the text source when the source
\* has the token and a vector drawn from the statistical fallback, each
\* drawn once, otherwise; when the source has every token no fallback
\* vector is drawn; the row of id 0 stays the one the model was built with.
C13_EmbeddingInjection ==
    embedding.word_rep # "none"
    => LET rows   == embedding.rows
           source == WordRepFile(embedding.word_rep)
           others == 2 .. Len(id_to_token)
           drawn  == {i \in others : rows[i][1] = "norm"}
       IN  /\ Len(rows) = Len(id_to_token)
           /\ rows[1] = <<"random", 0>>
           /\ \A i \in others :
                 IF id_to_token[i] \in source
                 THEN rows[i] = <<"text", id_to_token[i]>>
                 ELSE rows[i][1] = "norm"
           /\ \A i, j \in drawn : rows[i] = rows[j] => i = j
           /\ embedding.draws = Cardinality(drawn)
           /\ (\A i \in others : id_to_token[i] \in source)
                 => embedding.draws = 0

C13_Witness ==
    /\ hist.mode = "FRESH"
    /\ pc = "open_checkpoint"
    /\ embedding.word_rep = "some"
    /\ id_to_token = <<"", SOS_TOKEN, EOS_TOKEN, "x", "y">>
    /\ embedding.rows = << <<"random", 0>>, <<"norm", 1>>, <<"norm", 2>>,
                           <<"text", "x">>, <<"norm", 3>> >>
    /\ embedding.draws = 3

\* A state in which every token was found in the text source.
C13_AllFromSource ==
    /\ embedding.word_rep = "all"
    /\ embedding.draws = 0
    /\ \A i \in 2 .. Len(id_to_token) : embedding.rows[i] = <<"text", id_to_token[i]>>
    /\ Len(id_to_token) = 6

\* The epochs the process started are consecutive, the checkpoints it wrote
\* carry the numbers of those epochs in order, one each, and only the epoch
\* being trained has no checkpoint yet.
EpochsAndCheckpointsAlternate ==
    /\ \A i \in 1 .. Len(hist.ran) - 1 : hist.ran[i + 1] = hist.ran[i] + 1
    /\ Len(hist.stamps) <= Len(hist.ran)
    /\ \A i \in 1 .. Len(hist.stamps) : hist.stamps[i] = hist.ran[i]
    /\ hist.writes = Len(hist.stamps)
    /\ pc = "train" => Len(hist.stamps) = Len(hist.ran) - 1
    /\ pc \in {"loop", "done"} => Len(hist.stamps) = Len(hist.ran)

\* A step that writes a checkpoint is taken when every batch of the running
\* epoch has been consumed, and writes the number of that epoch.
CheckpointAfterAllBatches ==
    Len(hist'.stamps) > Len(hist.stamps)
    => (/\ pc = "train"
        /\ batch_id = Len(batches)
        /\ Range(hist.consumed) = 1 .. Len(DataFile(args.data))
        /\ hist'.stamps = Append(hist.stamps, hist.ran[Len(hist.ran)])
        /\ ckpt'.epoch = hist.ran[Len(hist.ran)]
        /\ hist'.consumed = hist.consumed)

\* A step that processes a batch belongs to the last started epoch, and
\* every epoch before it has its checkpoint.
BatchAfterEarlierCheckpoints ==
    Len(hist'.consumed) > Len(hist.consumed)
    => (/\ pc = "train"
        /\ Len(hist.stamps) = Len(hist.ran) - 1
        /\ hist'.stamps = hist.stamps)

\* C14: the checkpoint of epoch e is written after every batch of e has
\* been processed and before any batch of e+1 is; the epochs run in
\* consecutive increasing order and each is followed by exactly one
\* checkpoint write carrying its number.
C14_EpochCheckpointOrder ==
    /\ []EpochsAndCheckpointsAlternate
    /\ [][CheckpointAfterAllBatches /\ BatchAfterEarlierCheckpoints]_vars

C14_Witness ==
    /\ pc = "loop"
    /\ hist.ran = <<0, 1>>
    /\ hist.stamps = <<0, 1>>
    /\ ckpt.epoch = 1
    /\ Len(DataFile(args.data)) = 3
    /\ Len(hist.consumed) = 3

\* The vocabulary init_state builds from the data file of the run.
FreshlyBuilt == tokenize_data(DataFile(args.data), <<"">>, <<"">>, NoneVal)

\* From the epoch loop of a FRESH run on, the checkpoint file holds the
\* vocabulary just built, which is the one the process works with.
FreshVocabularyStored ==
    (hist.mode = "FRESH" /\ pc \in {"loop", "train", "done"})
    => (/\ id_to_token = FreshlyBuilt.tok
        /\ id_to_char = FreshlyBuilt.char
        /\ ckpt.vocab = FreshlyBuilt.tok
        /\ ckpt.c_vocab = FreshlyBuilt.char)

\* A RESUMING process leaves the stored vocabulary as it found it.
ResumeKeepsStoredVocabulary ==
    hist.mode = "RESUMING"
    => (ckpt'.vocab = ckpt.vocab /\ ckpt'.c_vocab = ckpt.c_vocab)

\* C15: after a FRESH start, on an empty folder or over an existing
\* checkpoint file, the checkpoint file holds exactly the freshly built
\* token and character vocabulary before the first batch of the first epoch
\* is processed and from then on; a RESUMING run never writes the
\* vocabulary.
C15_FreshVocabularyPersisted ==
    /\ []FreshVocabularyStored
    /\ [][ResumeKeepsStoredVocabulary]_vars

C15_Witness ==
    /\ hist.mode = "FRESH"
    /\ hist.foundFile
    /\ pc = "train"
    /\ batch_id = 0
    /\ hist.ran = <<0>>
    /\ args.data = "C"
    /\ ckpt.vocab = <<"", SOS_TOKEN, EOS_TOKEN, "x", "z">>
    /\ ckpt.epoch = 1

\* No symbol has two ids (a table is the id-ordered list of its symbols, so
\* no id has two symbols).
Bijective(id_to_symb) ==
    \A i, j \in 1 .. Len(id_to_symb) : id_to_symb[i] = id_to_symb[j] => i = j

\* The tables of the process and of the checkpoint file are bijections.
VocabularyBijective ==
    /\ Bijective(id_to_token)
    /\ Bijective(id_to_char)
    /\ Bijective(ckpt.vocab)
    /\ Bijective(ckpt.c_vocab)

\* Once built or loaded, the tables of a process stay as they are: the
\* steps after init_state and reload_state do not touch them.
VocabularyFrame ==
    (/\ pc \in {"open_checkpoint", "save_vocab", "save_c_vocab", "loop",
                 "train", "done", "failed"}
     /\ pc' \notin Stopped)
    => (id_to_token' = id_to_token /\ id_to_char' = id_to_char)

\* A resume that succeeds works with the stored tables, which
\* re-tokenizing the data has left unchanged.
ResumeKeepsVocabulary ==
    (pc = "reload_state" /\ pc' = "loop")
    => LET tables == tokenize_data(DataFile(args.data), ckpt.vocab,
                                   ckpt.c_vocab, config.limit)
       IN  /\ tables.tok = ckpt.vocab
           /\ tables.char = ckpt.c_vocab
           /\ id_to_token' = ckpt.vocab
           /\ id_to_char' = ckpt.c_vocab
           /\ ckpt' = ckpt

\* C16: the token and character tables change only while init_state
\* builds them on a FRESH start; running an epoch, checkpointing and a
\* successful resume leave them unchanged, and they stay bijections.
C16_VocabularyImmutable ==
    /\ []VocabularyBijective
    /\ [][VocabularyFrame /\ ResumeKeepsVocabulary]_vars

C16_Witness ==
    /\ hist.mode = "RESUMING"
    /\ pc = "loop"
    /\ hist.stamps = <<1>>
    /\ args.data = "A"
    /\ id_to_token = <<"", SOS_TOKEN, EOS_TOKEN, "x", "y", "xy">>
    /\ ckpt.vocab = id_to_token
    /\ ckpt.c_vocab = id_to_char

\* C17: every batch of train() goes through one forward pass, one loss
\* computation, one gradient reset, one backpropagation and one optimizer
\* step, in that order, before the next batch starts, and the pair of log
\* lines is emitted exactly for the batches whose index in the epoch is a
\* multiple of 100, index 0 included.
C17_BatchStepsAndLogging ==
    pc = "train"
    => (/\ batch_id > 0
           => hist.ops =
                <<"forward", "eval_batch_loss", "zero_grad", "backward", "step">>
                \o (IF (batch_id - 1) % LogEvery = 0
                    THEN <<"log_loss", "log_perplexity">> ELSE <<>>)
        /\ hist.logged =
              [k \in 1 .. ((batch_id + LogEvery - 1) \div LogEvery)
                 |-> (k - 1) * LogEvery]
        /\ Len(hist.consumed) <= batch_id * LoaderBatchSize(config)
        /\ Len(hist.consumed) > (batch_id - 1) * LoaderBatchSize(config))

C17_Witness ==
    /\ pc = "train"
    /\ batch_id = 101
    /\ hist.logged = <<0, 100>>
    /\ hist.ops = <<"forward", "eval_batch_loss", "zero_grad", "backward",
                    "step", "log_loss", "log_perplexity">>
    /\ Len(hist.consumed) = 101

\* The stored epoch counter is below the configured epoch count.
CounterBelowEpochs == ckpt.epoch # NoneVal => ckpt.epoch <= fixedE - 1

\* The stored counter never decreases, changes only when a checkpoint is
\* written, and each write advances it by one (the first write stores 0).
CounterAdvancesByOne ==
    /\ ckpt.epoch # NoneVal => ckpt'.epoch >= ckpt.epoch
    /\ ckpt'.epoch # ckpt.epoch => Len(hist'.stamps) = Len(hist.stamps) + 1
    /\ Len(hist'.stamps) = Len(hist.stamps) + 1
       => ckpt'.epoch = IF ckpt.epoch = NoneVal THEN 0 ELSE ckpt.epoch + 1

\* C18: over any sequence of invocations and kills on one folder without
\* force-restart and with the same configured epoch count E, the stored
\* epoch counter never decreases, advances by exactly one at each
\* checkpoint write and never exceeds E-1.
C18_CounterMonotone ==
    /\ []CounterBelowEpochs
    /\ [][CounterAdvancesByOne]_vars

C18_Witness ==
    /\ fixedE = 2
    /\ pc = "done"
    /\ hist.mode = "RESUMING"
    /\ hist.afterKill
    /\ hist.stored = 0
    /\ hist.stamps = <<1>>
    /\ ckpt.epoch = 1

====
